---- MODULE Spec2Model ----
(***************************************************************************)
(* Model of porous/funcs.py (Fluid, rho_c_JCA, DBM, JCA, alpha_from_dkz    *)
(* and the module-level names freq, omega, c0, rho0, z0, k0) and of the    *)
(* curve bookkeeping of porous/main.py (ParamWidget, MainWindow).          *)
(*                                                                         *)
(* Numbers.  Python floats are carried as fixed-point integers; the unit   *)
(* of every quantity is stated where it is computed.  numpy complex        *)
(* values that come out of powers, square roots and tan are carried as     *)
(* terms: a record of the quantities the code computes them from, plus    *)
(* the IEEE class of the value ("zero", "fin", "inf", "nan").              *)
(* Two terms that differ in a frequency differ as values (k0 and omega     *)
(* are linear in f, the Miki factors are strictly monotone in X).          *)
(***************************************************************************)
EXTENDS Integers, Sequences, FiniteSets, TLC

\* Module-level names of funcs.py (Python globals: rebindable, so state),
\* the last library call and its outcome, an earlier call kept for
\* comparison, and the state of the main window.
VARIABLES freq, omega, c0, rho0, z0, k0,
          call, ret, watched,
          paramWidgets, absorptionCurves, color, gui, lastRun

vars == <<freq, omega, c0, rho0, z0, k0, call, ret, watched,
          paramWidgets, absorptionCurves, color, gui, lastRun>>

modvars == <<freq, omega, c0, rho0, z0, k0>>
guivars == <<paramWidgets, absorptionCurves, color, gui, lastRun>>
libvars == <<call, ret, watched>>

(***************************************************************************)
(* Bounds                                                                  *)
(***************************************************************************)
\* Entries of the default grid np.arange(50, 10e3, 10) that are kept.
GridLen == 2
\* Longest frequency array a caller passes.
MaxLen == 3
\* Most curves the window holds.
MaxCurves == 2

(***************************************************************************)
(* Arithmetic helpers                                                      *)
(***************************************************************************)
Abs(x) == IF x < 0 THEN -x ELSE x

RECURSIVE ISqrtB(_, _, _)
ISqrtB(n, lo, hi) ==
    IF lo >= hi THEN lo
    ELSE LET mid == (lo + hi + 1) \div 2
         IN  IF mid * mid <= n THEN ISqrtB(n, mid, hi)
                               ELSE ISqrtB(n, lo, mid - 1)

\* floor(sqrt(n)) for 0 <= n < 2^31
ISqrt(n) == ISqrtB(n, 0, 46340)

\* Truncating division (the sign of a float quotient is that of its operands).
TDiv(a, b) == IF (a < 0) = (b < 0) THEN Abs(a) \div Abs(b)
                                   ELSE -(Abs(a) \div Abs(b))

(***************************************************************************)
(* IEEE classes of numpy values.  numpy arithmetic never raises: a zero    *)
(* divisor gives inf or nan and a warning.                                 *)
(***************************************************************************)
Cls == {"zero", "fin", "inf", "nan"}

\* numpy a * b
NpMul(a, b) ==
    IF a = "nan" \/ b = "nan" THEN "nan"
    ELSE IF (a = "zero" /\ b = "inf") \/ (a = "inf" /\ b = "zero") THEN "nan"
    ELSE IF a = "zero" \/ b = "zero" THEN "zero"
    ELSE IF a = "inf" \/ b = "inf" THEN "inf"
    ELSE "fin"

\* numpy a / b
NpDiv(a, b) ==
    IF a = "nan" \/ b = "nan" THEN "nan"
    ELSE IF b = "zero" THEN (IF a = "zero" THEN "nan" ELSE "inf")
    ELSE IF b = "inf" THEN (IF a = "inf" THEN "nan" ELSE "zero")
    ELSE a

\* numpy a + c and a - c for a finite non-zero constant c
NpAddConst(a) == IF a = "zero" THEN "fin" ELSE a

\* numpy a ** p for p < 0 on a real array: 0 -> inf, inf -> 0,
\* negative base with a fractional exponent -> nan
NpNegPow(a, negative) ==
    IF a = "nan" \/ negative THEN "nan"
    ELSE IF a = "zero" THEN "inf"
    ELSE IF a = "inf" THEN "zero"
    ELSE "fin"

\* class of a Python float given as a fixed-point integer
ClsOf(x) == IF x = 0 THEN "zero" ELSE "fin"

(***************************************************************************)
(* Outcomes of a call                                                      *)
(***************************************************************************)
Raise(e) == [raised |-> e, val |-> <<>>]
Return(v) == [raised |-> "none", val |-> v]

(***************************************************************************)
(* Fluid.__init__ (funcs.py 18-61).  All arguments are Python floats, so   *)
(* a zero divisor raises ZeroDivisionError.  Units: temperatures 1e-2 K,   *)
(* P0 Pa, R 1e-2 J/(kg K), adia 1e-1, Eta0 and Eta 1e-9 Pa s,              *)
(* rho 1e-4 kg/m^3, Cp 1e-3 J/(kg K), kappa 1e-7 W/(m K), co 1e-2 m/s,     *)
(* Pr 1e-3.  Valid for |T0| <= 400 K and |R * TK| >= 1 or = 0.             *)
(***************************************************************************)
T0_default == 2000
P0_default == 101325
R_default == 28705
adia_default == 14
Tref_default == 29115
C_default == 12000
Eta0_default == 18070

\* funcs.py 45-47: Cp polynomial in T0
FluidCp(T0) ==
    LET T0sq == TDiv(T0 * T0, 10000)
        T0cu == T0sq * TDiv(T0, 100)
    IN  1006200 + TDiv(36028 * T0, 100000) - TDiv(10855 * T0sq, 10000)
        + TDiv(13791 * TDiv(T0cu, 1000), 1000)

\* funcs.py 48-53: kappa polynomial in TK
FluidKappa(TK) ==
    LET TKsq == TDiv(TK * TK, 10000)
        TKcu == TKsq * TDiv(TK, 100)
    IN  TDiv(15207 * TDiv(TKcu, 10000), 10000) - TDiv(TKsq * 4857, 10000)
        + TDiv(10184 * TK, 1000) - 3933

\* funcs.py 42-44: Sutherland's law.  q ** 1.5 of a negative Python float
\* is a Python complex number (no exception); its modulus is carried.
FluidEta(TK, Tref, C, Eta0) ==
    LET a == TDiv((Tref + C) * 10000, TK + C)
        q == TDiv(TK * 10000, Tref)
        p == (Abs(q) * ISqrt(Abs(q) * 10000)) \div 10000
    IN  TDiv(TDiv(Eta0 * a, 10000) * p, 10000)

\* funcs.py 54: np.sqrt of a negative float is nan (a warning, no exception)
FluidCo(adia, R, TK) ==
    LET x == TDiv(R * TK, 10) * adia
    IN  IF x < 0 THEN [cls |-> "nan", v |-> 0]
                 ELSE [cls |-> ClsOf(x), v |-> ISqrt(x)]

\* funcs.py 41-61 once self.TK is set
FluidFrom(TK, T0, P0, R, adia, Tref, C, Eta0) ==
    IF R * TK = 0 THEN Raise("ZeroDivisionError")                \* line 41
    ELSE IF TK + C = 0 THEN Raise("ZeroDivisionError")           \* line 43
    ELSE IF Tref = 0 THEN Raise("ZeroDivisionError")             \* line 43
    ELSE IF FluidKappa(TK) = 0 THEN Raise("ZeroDivisionError")   \* line 61
    ELSE LET Eta == FluidEta(TK, Tref, C, Eta0)
             Cp == FluidCp(T0)
             kappa == FluidKappa(TK)
         IN  Return([TK |-> TK,
                     rho |-> TDiv(P0 * 10000, TDiv(R * TK, 10000)),
                     Eta |-> Eta,
                     EtaType |-> IF TDiv(TK * 10000, Tref) < 0
                                 THEN "complex" ELSE "float",
                     Cp |-> Cp,
                     kappa |-> kappa,
                     co |-> FluidCo(adia, R, TK),
                     gamma |-> adia,
                     P0 |-> P0,
                     Pr |-> TDiv(TDiv(Cp, 100) * Eta, kappa)])

\* Faulty variant: the Celsius temperature used as the absolute one.
FluidCelsius(T0, P0, R, adia, Tref, C, Eta0) ==
    FluidFrom(T0, T0, P0, R, adia, Tref, C, Eta0)

\* Fluid(T0, P0, R, adia, Tref, C, Eta0): line 40, TK = T0 + 273.15
Fluid(T0, P0, R, adia, Tref, C, Eta0) ==
    FluidFrom(T0 + 27315, T0, P0, R, adia, Tref, C, Eta0)

\* Fluid() with every default (funcs.py 21-27), as rho_c_JCA builds it
DefaultFluid ==
    Fluid(T0_default, P0_default, R_default, adia_default,
          Tref_default, C_default, Eta0_default)

(***************************************************************************)
(* Module level of funcs.py (lines 3-8).  freq in Hz, omega 1e-2 rad/s,    *)
(* c0 1e-2 m/s, rho0 1e-4 kg/m^3, z0 = rho0 * c0 1e-6 rayl,                *)
(* k0 1e-4 rad/m.                                                          *)
(***************************************************************************)
\* line 3: the first GridLen entries of np.arange(50, 10e3, 10)
DefaultGrid == [i \in 1..GridLen |-> 50 + 10 * (i - 1)]

\* 2 * np.pi * f
OmegaOf(f) == (2 * 314159 * f) \div 1000

\* w / c
K0Of(w, c) == (w * 10000) \div c

\* Faulty variant: z0 taken as the sum of rho0 and c0.
ModuleLoadSum ==
    /\ freq = DefaultGrid
    /\ omega = [i \in 1..GridLen |-> OmegaOf(DefaultGrid[i])]
    /\ c0 = 34300
    /\ rho0 = 12130
    /\ z0 = 12130 + 34300
    /\ k0 = [i \in 1..GridLen |-> K0Of(OmegaOf(DefaultGrid[i]), 34300)]

\* the import of funcs.py: lines 3-8
ModuleLoad ==
    /\ freq = DefaultGrid
    /\ omega = [i \in 1..GridLen |-> OmegaOf(DefaultGrid[i])]
    /\ c0 = 34300
    /\ rho0 = 12130
    /\ z0 = 12130 * 34300
    /\ k0 = [i \in 1..GridLen |-> K0Of(OmegaOf(DefaultGrid[i]), 34300)]

(***************************************************************************)
(* numpy broadcasting of two one-dimensional arrays: equal lengths pair    *)
(* entry by entry, a length-1 array is stretched, anything else is a       *)
(* ValueError (length 0 below).                                            *)
(***************************************************************************)
BLen(m, n) == IF m = n THEN m
              ELSE IF m = 1 THEN n
              ELSE IF n = 1 THEN m
              ELSE 0

\* entry of an array of length m that pairs with entry i of the result
BIdx(i, m) == IF m = 1 THEN 1 ELSE i

(***************************************************************************)
(* alpha_from_dkz(d, k, z) (funcs.py 11-15).  d in 1e-3 m; k and z arrays  *)
(* of [cls, t].  Reads the global z0.                                      *)
(***************************************************************************)
\* np.tan: tan(0) = 0; tan of a non-finite value is nan
NpTan(a) == IF a = "zero" THEN "zero"
            ELSE IF a = "fin" THEN "fin"
            ELSE "nan"

\* 1 - np.abs(R) ** 2
AlphaCls(R) == IF R = "nan" THEN "nan"
               ELSE IF R = "inf" THEN "inf"
               ELSE "fin"

\* lines 12-14 for one entry
AlphaEntry(d, ki, zi, zs) ==
    [cls |-> AlphaCls(NpDiv(NpAddConst(zs), NpAddConst(zs))),     \* 13-14
     t |-> [d |-> d, k |-> ki.t, z |-> zi.t, z0 |-> z0]]

alpha_from_dkz(d, k, z) ==
    IF BLen(Len(z), Len(k)) = 0 THEN Raise("ValueError")
    ELSE Return([i \in 1..BLen(Len(z), Len(k)) |->
            AlphaEntry(d, k[BIdx(i, Len(k))], z[BIdx(i, Len(z))],
                       NpDiv(z[BIdx(i, Len(z))].cls,              \* line 12
                             NpTan(NpMul(k[BIdx(i, Len(k))].cls,
                                         ClsOf(d)))))])

(***************************************************************************)
(* DBM(f, d, sigma) (funcs.py 109-136).  f an array of Hz, sigma a Python  *)
(* float in Pa s/m^2.  X = 1e3 * f / sigma is array / float: numpy         *)
(* division, no exception.                                                 *)
(***************************************************************************)
\* (1e3 * f / sigma) for one entry: its class, its sign and its term
MikiX(fi, sigma) ==
    [cls |-> NpDiv(ClsOf(1000 * fi), ClsOf(sigma)),
     neg |-> (fi # 0 /\ sigma # 0 /\ ((fi < 0) # (sigma < 0))),
     t   |-> [num |-> 1000 * fi, den |-> sigma]]

\* 1 + a * X ** (-p) - 1j * b * X ** (-p)
MikiFactor(X) == NpAddConst(NpNegPow(X.cls, X.neg))

\* lines 123-127 for one entry
MikiZ(X) == [cls |-> NpMul(ClsOf(z0), MikiFactor(X)),
             t   |-> [z0 |-> z0, X |-> X.t]]

\* lines 128-132 for one entry
MikiK(k0i, X) == [cls |-> NpMul(ClsOf(k0i), MikiFactor(X)),
                  t   |-> [k0 |-> k0i, X |-> X.t]]

\* lines 123-136 with the wavenumber array kk in the place of k0
DBMWith(kk, f, d, sigma) ==
    IF BLen(Len(kk), Len(f)) = 0 THEN Raise("ValueError")         \* line 128
    ELSE alpha_from_dkz(d,
            [i \in 1..BLen(Len(kk), Len(f)) |->
                MikiK(kk[BIdx(i, Len(kk))],
                      MikiX(f[BIdx(i, Len(f))], sigma))],
            [i \in 1..Len(f) |-> MikiZ(MikiX(f[i], sigma))])

\* line 128 multiplies by the global k0
DBM(f, d, sigma) == DBMWith(k0, f, d, sigma)

(***************************************************************************)
(* rho_c_JCA(freq, phi, sigma, alpha, v_length, t_length) with no fluid    *)
(* arguments (funcs.py 64-106), as JCA calls it: the first argument an     *)
(* array (named fr here), the others Python floats.  phi in 1e-2,          *)
(* alpha in 1e-2, the lengths in 1e-7 m.                                   *)
(***************************************************************************)
\* lines 82-86: G_J, an array divided by a float (numpy division)
JcaG(wc, phi, sigma, alpha, v_length) ==
    NpAddConst(NpDiv(NpMul(ClsOf(alpha), wc),
                     NpMul(ClsOf(sigma), NpMul(ClsOf(v_length), ClsOf(phi)))))

\* line 87 after the float quotient alpha * f.rho / phi
JcaRho(wc, G, phi, sigma, alpha) ==
    NpMul(ClsOf(alpha),
          NpAddConst(NpMul(NpDiv(NpMul(ClsOf(sigma), ClsOf(phi)),
                                 NpMul(wc, ClsOf(alpha))),
                           G)))

\* lines 96-99: 1 + (8 Eta) / (1j t_length^2 Pr^2 omega rho) * (...) ** 0.5
JcaB(wc, tc) ==
    NpAddConst(NpMul(NpDiv("fin", NpMul(tc, wc)), NpAddConst(NpMul(wc, tc))))

\* lines 88-103 after the float quotient (f.gamma * f.P0) / phi
JcaK(wc, t_length) ==
    NpDiv("fin", NpAddConst(NpDiv("fin", JcaB(wc, ClsOf(t_length)))))

\* lines 79-106 for the entry of angular frequency w
JcaEntry(w, rhoCls, KCls, p) ==
    [rho |-> [cls |-> rhoCls, t |-> [q |-> "rho", w |-> w, p |-> p]],
     c   |-> [cls |-> NpDiv(KCls, rhoCls),                        \* line 104
              t |-> [q |-> "c", w |-> w, p |-> p]]]

\* lines 79-106 given the fluid of line 78
JcaFrom(fl, fr, phi, sigma, alpha, v_length, t_length) ==
    IF fl.raised # "none" THEN fl
    ELSE IF phi = 0 THEN Raise("ZeroDivisionError")               \* line 87
    ELSE Return([i \in 1..Len(fr) |->
            JcaEntry(OmegaOf(fr[i]),
                     JcaRho(ClsOf(OmegaOf(fr[i])),
                            JcaG(ClsOf(OmegaOf(fr[i])), phi, sigma, alpha,
                                 v_length),
                            phi, sigma, alpha),
                     JcaK(ClsOf(OmegaOf(fr[i])), t_length),
                     <<phi, sigma, alpha, v_length, t_length>>)])

\* the value is the array of (rho, c) pairs, entry by entry
rho_c_JCA(fr, phi, sigma, alpha, v_length, t_length) ==
    JcaFrom(DefaultFluid, fr, phi, sigma, alpha, v_length, t_length)

(***************************************************************************)
(* JCA(f, d, phi, sigma, tort, v_length, t_length) (funcs.py 139-158)      *)
(***************************************************************************)
\* lines 155-158 given the outcome rc of line 154
JCAFrom(rc, f, d) ==
    IF rc.raised # "none" THEN rc
    ELSE IF BLen(Len(f), Len(rc.val)) = 0 THEN Raise("ValueError")
    ELSE alpha_from_dkz(d,
            [i \in 1..BLen(Len(f), Len(rc.val)) |->               \* line 155
                [cls |-> NpDiv(ClsOf(f[BIdx(i, Len(f))]),
                               rc.val[BIdx(i, Len(rc.val))].c.cls),
                 t   |-> [w |-> OmegaOf(f[BIdx(i, Len(f))]),
                          c |-> rc.val[BIdx(i, Len(rc.val))].c.t]]],
            [i \in 1..Len(rc.val) |->                             \* line 156
                [cls |-> NpMul(rc.val[i].rho.cls, rc.val[i].c.cls),
                 t   |-> [rho |-> rc.val[i].rho.t, c |-> rc.val[i].c.t]]])

\* lines 154-158 with the array g handed to rho_c_JCA
JCAWith(g, f, d, phi, sigma, tort, v_length, t_length) ==
    JCAFrom(rho_c_JCA(g, phi, sigma, tort, v_length, t_length), f, d)

\* line 154 hands the global freq, not f, to rho_c_JCA
JCA(f, d, phi, sigma, tort, v_length, t_length) ==
    JCAWith(freq, f, d, phi, sigma, tort, v_length, t_length)

(***************************************************************************)
(* Arguments the callers are given                                         *)
(***************************************************************************)
FreqVals == {50, 60}
FreqArrays == UNION {[1..n -> FreqVals] : n \in 1..MaxLen} \cup {DefaultGrid}
Thicknesses == {10, 0, -10}
Sigmas == {15000, 0, -15000}
Phis == {99, 0}
Torts == {101}
VLengths == {874}
TLengths == {1960}
Temps == {T0_default, -27315, -39315}
GasConsts == {R_default, 0}
RefTemps == {Tref_default, 0}
\* arrays alpha_from_dkz is handed directly: every class, length 1 or GridLen;
\* entry i carries the term [arg |-> i]
ClsArrays == {[i \in 1..n |-> [cls |-> c, t |-> [arg |-> i]]] :
                 n \in {1, GridLen}, c \in {"zero", "fin"}}
\* the arguments of the calls compared for determinism
PureArrays == {DefaultGrid, <<60>>}

(***************************************************************************)
(* Library calls.  A call leaves every module-level name alone: no         *)
(* function of funcs.py assigns a global.                                  *)
(***************************************************************************)
\* a call is <<entry point, arguments>>
NoCall == <<"none", <<>>>>

Lib(c, r) ==
    /\ call' = c
    /\ ret' = r
    /\ UNCHANGED modvars
    /\ UNCHANGED guivars

CallFluid(T0, P0, R, adia, Tref, C, Eta0) ==
    Lib(<<"Fluid", <<T0, P0, R, adia, Tref, C, Eta0>>>>,
        Fluid(T0, P0, R, adia, Tref, C, Eta0))

CallAlphaFromDkz(d, k, z) ==
    Lib(<<"alpha_from_dkz", <<d, k, z>>>>,
        alpha_from_dkz(d, k, z))

CallRhoCJCA(fr, phi, sigma, alpha, v_length, t_length) ==
    Lib(<<"rho_c_JCA", <<fr, phi, sigma, alpha, v_length, t_length>>>>,
        rho_c_JCA(fr, phi, sigma, alpha, v_length, t_length))

CallDBM(f, d, sigma) ==
    Lib(<<"DBM", <<f, d, sigma>>>>, DBM(f, d, sigma))

\* Faulty variant: JCA rebinds the global grid to its argument.
CallJCARebind(f, d, phi, sigma, tort, v_length, t_length) ==
    /\ call' = <<"JCA", <<f, d, phi, sigma, tort, v_length, t_length>>>>
    /\ ret' = JCAWith(f, f, d, phi, sigma, tort, v_length, t_length)
    /\ freq' = f
    /\ UNCHANGED <<omega, c0, rho0, z0, k0>>
    /\ UNCHANGED guivars

CallJCA(f, d, phi, sigma, tort, v_length, t_length) ==
    Lib(<<"JCA", <<f, d, phi, sigma, tort, v_length, t_length>>>>,
        JCA(f, d, phi, sigma, tort, v_length, t_length))

\* an earlier call is kept, or replaced by the one that just ended
Watch == watched' \in {watched, <<call, ret>>}

LibInit ==
    /\ ModuleLoad
    /\ call = NoCall
    /\ ret = Return(<<>>)
    /\ watched = <<NoCall, Return(<<>>)>>
    /\ paramWidgets = <<>>
    /\ absorptionCurves = <<>>
    /\ color = 0
    /\ gui = "none"
    /\ lastRun = <<>>

Init == LibInit

Next ==
    \/ \E T0 \in Temps, R \in GasConsts, Tref \in RefTemps :
          /\ CallFluid(T0, P0_default, R, adia_default, Tref, C_default,
                       Eta0_default)
          /\ UNCHANGED watched
    \/ \E d \in Thicknesses, k \in ClsArrays, z \in ClsArrays :
          CallAlphaFromDkz(d, k, z) /\ UNCHANGED watched
    \/ \E fr \in FreqArrays, phi \in Phis, sigma \in Sigmas, a \in Torts,
          vl \in VLengths, tl \in TLengths :
          CallRhoCJCA(fr, phi, sigma, a, vl, tl) /\ UNCHANGED watched
    \/ \E f \in FreqArrays, d \in Thicknesses, sigma \in Sigmas :
          CallDBM(f, d, sigma) /\ UNCHANGED watched
    \/ \E f \in FreqArrays, d \in Thicknesses, phi \in Phis, sigma \in Sigmas,
          a \in Torts, vl \in VLengths, tl \in TLengths :
          CallJCA(f, d, phi, sigma, a, vl, tl) /\ UNCHANGED watched

Spec == Init /\ [][Next]_vars

\* the same calls on fewer arguments, an earlier call kept for comparison
NextPure ==
    \/ \E T0 \in Temps, R \in GasConsts :
          /\ CallFluid(T0, P0_default, R, adia_default, Tref_default,
                       C_default, Eta0_default)
          /\ Watch
    \/ \E d \in {10, 0}, k \in ClsArrays :
          CallAlphaFromDkz(d, k, k) /\ Watch
    \/ \E fr \in PureArrays, phi \in Phis :
          CallRhoCJCA(fr, phi, 15000, 101, 874, 1960) /\ Watch
    \/ \E f \in PureArrays, d \in {10, 0}, sigma \in {15000, 0} :
          CallDBM(f, d, sigma) /\ Watch
    \/ \E f \in PureArrays, d \in {10, 0}, phi \in Phis :
          CallJCA(f, d, phi, 15000, 101, 874, 1960) /\ Watch

SpecPure == Init /\ [][NextPure]_vars

(***************************************************************************)
(* main.py: ParamWidget and MainWindow.  Spin-box values are carried in    *)
(* the units get_alpha converts them to: sigmaBox in kPa s/m^2,            *)
(* thicknessBox in mm, phiBox and tortuosityBox in 1e-2, vLengthBox and    *)
(* tLengthBox in 1e-1 um.  A Python exception that leaves a slot ends the  *)
(* application (gui = "aborted").                                          *)
(***************************************************************************)
Radios == {"DBM", "JCA", "none"}
SigmaBoxVals == {15, 0}
ThicknessBoxVals == {10, 0}
PhiBoxVals == {99, 0}

\* ParamWidget.__init__ (main.py 29-45); which radio button the form checks
\* is the form's choice
ParamWidget(radio) ==
    [radio |-> radio, sigmaBox |-> 15, thicknessBox |-> 10, phiBox |-> 99,
     tortuosityBox |-> 101, vLengthBox |-> 874, tLengthBox |-> 1960]

\* ParamWidget.get_alpha (main.py 47-62)
get_alpha(w) ==
    LET sigma == w.sigmaBox * 1000
        d == w.thicknessBox
        tort == w.tortuosityBox
        phi == w.phiBox
        v_length == w.vLengthBox
        t_length == w.tLengthBox
    IN  IF w.radio = "DBM" THEN DBM(freq, d, sigma)
        ELSE IF w.radio = "JCA"
             THEN JCA(freq, d, phi, sigma, tort, v_length, t_length)
        ELSE DBM(freq, d, sigma)

\* self.ax.plot(freq, np.zeros_like(freq), pen=self.color, name=...) (line 84)
NewCurve(i, pen) ==
    [name |-> i, pen |-> pen, x |-> freq,
     y |-> [j \in 1..Len(freq) |-> [cls |-> "zero"]]]

\* lines 98-101 given what get_alpha returns for the widget read at each
\* turn: the loop stops at the first turn whose get_alpha raises or whose
\* curve is missing
PlotStop(alphas, ac) ==
    IF \E i \in 1..Len(alphas) : alphas[i].raised # "none" \/ i > Len(ac)
    THEN CHOOSE i \in 1..Len(alphas) :
            /\ alphas[i].raised # "none" \/ i > Len(ac)
            /\ \A j \in 1..(i - 1) :
                  alphas[j].raised = "none" /\ j <= Len(ac)
    ELSE Len(alphas) + 1

PlotLoop(alphas, ac, stop) ==
    [curves |-> [i \in 1..Len(ac) |->
                    IF i < stop
                    THEN [ac[i] EXCEPT !.x = freq, !.y = alphas[i].val]
                    ELSE ac[i]],
     error |-> IF stop > Len(alphas) THEN "none"
               ELSE IF alphas[stop].raised # "none" THEN alphas[stop].raised
               ELSE "IndexError",
     set |-> stop - 1]

PlotWith(alphas, ac) == PlotLoop(alphas, ac, PlotStop(alphas, ac))

\* MainWindow.updatePlot (main.py 97-101): the curves after the loop, the
\* exception that ended it, the number of curves it set
updatePlot(pw, ac) ==
    PlotWith([i \in 1..Len(pw) |-> get_alpha(pw[i])], ac)

\* what one run of updatePlot saw and did
RunLog(pw, ac, r) ==
    [nw |-> Len(pw), nc |-> Len(ac), error |-> r.error, set |-> r.set]

\* the window after a run of updatePlot
AfterRun(pw, log, run) ==
    /\ paramWidgets' = pw
    /\ absorptionCurves' = run.curves
    /\ lastRun' = log
    /\ gui' = IF run.error = "none" THEN "running" ELSE "aborted"

\* lines 81-86 on the lists pw1 and ac1 that lines 81 and 84 leave
AddTail(pre, pw1, ac1) ==
    /\ AfterRun(pw1, <<pre, RunLog(pw1, ac1, updatePlot(pw1, ac1))>>,
                updatePlot(pw1, ac1))                             \* line 86
    /\ color' = color + 1                                         \* line 85

\* line 80 on: pre is the run the constructor's setValue calls start
AddFrom(pre, radio) ==
    IF pre.error # "none"
    THEN /\ AfterRun(paramWidgets,
                     <<RunLog(paramWidgets, absorptionCurves, pre)>>, pre)
         /\ UNCHANGED color
    ELSE AddTail(RunLog(paramWidgets, absorptionCurves, pre),
                 Append(paramWidgets, ParamWidget(radio)),        \* line 81
                 Append(pre.curves,                               \* line 84
                        NewCurve(Len(paramWidgets) + 1, color)))

\* Faulty variant: the plot is refreshed before the new curve is appended.
addModelCurveEarly(radio) ==
    /\ AfterRun(Append(paramWidgets, ParamWidget(radio)),
                <<RunLog(Append(paramWidgets, ParamWidget(radio)),
                         absorptionCurves,
                         updatePlot(Append(paramWidgets, ParamWidget(radio)),
                                    absorptionCurves))>>,
                updatePlot(Append(paramWidgets, ParamWidget(radio)),
                           absorptionCurves))
    /\ color' = color + 1

\* MainWindow.addModelCurve (main.py 79-86).  The widget's constructor sets
\* its spin boxes, which may call back into updatePlot before the widget is
\* in paramWidgets.
addModelCurve(radio) ==
    AddFrom(updatePlot(paramWidgets, absorptionCurves), radio)

\* MainWindow.__init__ and setup (main.py 69-95): empty lists, one curve
MainWindowInit(radio) ==
    /\ gui = "none"
    /\ paramWidgets = <<>> /\ absorptionCurves = <<>> /\ color = 0
    /\ addModelCurve(radio)
    /\ UNCHANGED <<modvars, libvars>>

\* a later call of addModelCurve
AddModelCurve(radio) ==
    /\ gui = "running"
    /\ Len(paramWidgets) < MaxCurves
    /\ addModelCurve(radio)
    /\ UNCHANGED <<modvars, libvars>>

\* the slot's run of updatePlot on the edited widgets pw1
ChangedRun(pw1, run) ==
    AfterRun(pw1, <<RunLog(pw1, absorptionCurves, run)>>, run)

\* a slot that ends in ParamWidget.updatePlot -> callback (main.py 64-65),
\* after widget i has taken the edited state w
Changed(i, w) ==
    /\ gui = "running"
    /\ w # paramWidgets[i]
    /\ ChangedRun([paramWidgets EXCEPT ![i] = w],
                  updatePlot([paramWidgets EXCEPT ![i] = w],
                             absorptionCurves))
    /\ UNCHANGED <<color, modvars, libvars>>

SigmaChanged(i, v) == Changed(i, [paramWidgets[i] EXCEPT !.sigmaBox = v])
ThicknessChanged(i, v) ==
    Changed(i, [paramWidgets[i] EXCEPT !.thicknessBox = v])
PhiChanged(i, v) == Changed(i, [paramWidgets[i] EXCEPT !.phiBox = v])
RadioChanged(i, v) == Changed(i, [paramWidgets[i] EXCEPT !.radio = v])

NextGui ==
    \/ \E r \in Radios : MainWindowInit(r)
    \/ \E r \in Radios : AddModelCurve(r)
    \/ \E i \in 1..Len(paramWidgets), v \in SigmaBoxVals : SigmaChanged(i, v)
    \/ \E i \in 1..Len(paramWidgets), v \in ThicknessBoxVals :
          ThicknessChanged(i, v)
    \/ \E i \in 1..Len(paramWidgets), v \in PhiBoxVals : PhiChanged(i, v)
    \/ \E i \in 1..Len(paramWidgets), v \in {"DBM", "JCA"} :
          RadioChanged(i, v)

SpecGui == Init /\ [][NextGui]_vars

(***************************************************************************)
(* Properties                                                              *)
(***************************************************************************)
IsCall(fn) == call[1] = fn
Returned == ret.raised = "none"

\* the frequency array and the scalar arguments of a DBM or JCA call
Args == call[2]
ArgF == Args[1]
ArgD == Args[2]
ArgPhi == Args[3]
ArgSigma == IF IsCall("DBM") THEN Args[3] ELSE Args[4]

\* the scalar arguments are in the physical domain
ValidScalars ==
    /\ ArgD > 0
    /\ ArgSigma > 0
    /\ IsCall("JCA") => ArgPhi > 0

\* C1: JCA(f, ...) evaluates the effective-medium model at the caller's
\* frequencies: entry i is alpha_from_dkz of k = 2 pi f[i] / c_eff(f[i]) and
\* z = rho_eff(f[i]) * c_eff(f[i]), whatever the module-level grid is.
C1_JCAAtCallerFrequencies ==
    IsCall("JCA") =>
        ret = JCAWith(ArgF, ArgF, ArgD, ArgPhi, ArgSigma, Args[5],
                      Args[6], Args[7])

\* C2: for every frequency array f of n >= 1 entries, DBM and JCA return
\* exactly n entries, entry i computed for f[i], in input order.
C2_OneEntryPerFrequency ==
    (IsCall("DBM") \/ IsCall("JCA")) /\ ValidScalars =>
        /\ Returned
        /\ Len(ret.val) = Len(ArgF)
        /\ \A i \in 1..Len(ArgF) :
              IF IsCall("DBM")
              THEN ret.val[i].t.z.X.num = 1000 * ArgF[i]
              ELSE ret.val[i].t.k.w = OmegaOf(ArgF[i])

\* C3: DBM(f, d, sigma) uses for entry i the free-field wavenumber of that
\* entry's own frequency, k0(f[i]) = 2 pi f[i] / c0, whatever the
\* module-level grid is.
C3_DBMOwnWavenumber ==
    IsCall("DBM") =>
        ret = DBMWith([i \in 1..Len(ArgF) |-> K0Of(OmegaOf(ArgF[i]), c0)],
                      ArgF, ArgD, ArgSigma)

\* two outcomes are the same outcome
RetEq(a, b) == a.raised = b.raised /\ (a.raised = "none" => a.val = b.val)

\* C4: in any sequence of calls of Fluid, alpha_from_dkz, rho_c_JCA, DBM and
\* JCA, two calls of the same entry point with the same arguments have the
\* same outcome, and the module-level names keep the values of the import.
C4_Pure ==
    /\ ModuleLoad
    /\ watched[1] = call => RetEq(watched[2], ret)

\* an entry point was called again with the arguments of an earlier call,
\* other calls in between or not
C4_Witness ==
    /\ IsCall("JCA") /\ Returned
    /\ watched[1] = call
    /\ ArgF # freq

\* C5: with a scalar parameter outside the domain (sigma <= 0, phi <= 0 or
\* d <= 0, as Python floats) DBM and JCA on the default grid raise no
\* exception and return one value per frequency.
C5_NoExceptionOnInvalid ==
    (IsCall("DBM") \/ IsCall("JCA")) /\ ~ValidScalars /\ ArgF = freq =>
        Returned /\ Len(ret.val) = Len(ArgF)

\* C6: constructing Fluid with finite arguments always completes without
\* raising, also for T0 = -273.15, R = 0, Tref = 0 and TK = -C.
C6_FluidNeverRaises == IsCall("Fluid") => Returned

\* C7: at the singular point k * d = 0 alpha_from_dkz raises nothing and
\* returns a number for every frequency (the limit 0), not NaN.
C7_SingularPointIsNumber ==
    IsCall("alpha_from_dkz")
    /\ (Args[1] = 0 \/ \A i \in 1..Len(Args[2]) : Args[2][i].cls = "zero") =>
        Returned /\ \A i \in 1..Len(ret.val) : ret.val[i].cls = "fin"

\* C8 as stated: rho0 is the density and c0 the sound speed of Fluid(),
\* and z0 = rho0 * c0.
C8_ConstantsFromDefaultFluid ==
    /\ rho0 = DefaultFluid.val.rho
    /\ c0 = DefaultFluid.val.co.v
    /\ z0 = rho0 * c0

\* C8 as amended: rho0 = 1.213 and c0 = 343.0 are literals, z0 = rho0 * c0;
\* they are not the density and sound speed of Fluid() but lie within 1 %
\* and 0.1 % of them.
C8_ConstantsAreLiterals ==
    /\ rho0 = 12130 /\ c0 = 34300 /\ z0 = rho0 * c0
    /\ rho0 # DefaultFluid.val.rho
    /\ c0 # DefaultFluid.val.co.v
    /\ Abs(rho0 - DefaultFluid.val.rho) * 100 <= DefaultFluid.val.rho
    /\ Abs(c0 - DefaultFluid.val.co.v) * 1000 <= DefaultFluid.val.co.v

\* z0 was used by a call next to the default fluid
C8_Witness ==
    /\ IsCall("JCA") /\ Returned
    /\ ret.val[1].t.z0 = rho0 * c0
    /\ DefaultFluid.raised = "none"

\* the call Fluid(T0=20.0, P0=101325.0, R=287.05, adia=1.4), other defaults
DefaultFluidCall ==
    /\ IsCall("Fluid")
    /\ Args = <<T0_default, P0_default, R_default, adia_default,
                     Tref_default, C_default, Eta0_default>>

\* C9: Fluid(T0=20.0, P0=101325.0, R=287.05, adia=1.4) has rho within 0.001
\* of 1.2045 and co within 0.2 of 343.2, and co differs from c0 = 343.0 by
\* less than 0.1 %.
C9_DefaultFluidValues ==
    DefaultFluidCall =>
        /\ Returned
        /\ Abs(ret.val.rho - 12045) <= 10
        /\ ret.val.co.cls = "fin"
        /\ Abs(ret.val.co.v - 34320) <= 20
        /\ Abs(ret.val.co.v - c0) * 1000 < c0

C9_Witness == DefaultFluidCall /\ Returned /\ ret.val.TK = 29315

\* C10: every run of updatePlot finds as many curves as widgets, so it
\* never indexes a missing curve, and each curve it sets holds the spectrum
\* of the widget of the same index over the default grid.
C10_CurvesMatchWidgets ==
    /\ \A r \in 1..Len(lastRun) :
          lastRun[r].nw = lastRun[r].nc /\ lastRun[r].error # "IndexError"
    /\ lastRun # <<>> =>
          \A i \in 1..lastRun[Len(lastRun)].set :
              /\ absorptionCurves[i].x = freq
              /\ absorptionCurves[i].y = get_alpha(paramWidgets[i]).val

\* two widgets with different parameters, both curves set by the last run
C10_Witness ==
    /\ gui = "running"
    /\ Len(paramWidgets) = 2
    /\ paramWidgets[1].radio = "DBM" /\ paramWidgets[2].radio = "JCA"
    /\ lastRun[Len(lastRun)].set = 2
    /\ absorptionCurves[1].y # absorptionCurves[2].y

====
